---- MODULE Spec2Model ----
(***************************************************************************)
(* The request-log lifecycle of EverMemOS.                                 *)
(*                                                                         *)
(* MemoryRequestLog records are inserted by a listener with                *)
(* sync_status = -1 and moved by MemoryRequestLogRepository's three        *)
(* update_many calls; ConversationDataRepositoryImpl is the facade over    *)
(* them.  An update_many is not atomic over the collection: the store      *)
(* visits the documents one at a time and decides each one on its state    *)
(* at that moment, so an update is a process that visits records step by   *)
(* step, and the updates of several service instances interleave.  A find  *)
(* is one read of the collection.  The store may raise at any point of a   *)
(* call, also after it changed some documents, also after it changed all   *)
(* of them (the reply is lost).                                            *)
(***************************************************************************)
EXTENDS Integers, Sequences, FiniteSets, TLC

\* ---------------------------------------------------------------- bounds
\* The number of records the listener inserts in one behaviour.
MaxRecords == 2

\* ------------------------------------------------------ program constants
LOGGED == -1
ACCUMULATING == 0
CONSUMED == 1
\* find_by_group_id's and get_conversation_data's default limit.
DefaultLimit == 100

\* Python's None, for an Optional[str] field and for an absent group.
None == "<None>"

\* -------------------------------------------------------------- inputs
Groups == {"g1", "g2"}
\* The message_id a listener stores on a record (Optional[str]).
RecordMessageIds == {None, "msg1", "msg2"}
\* The service instances that call the facade.
Callers == {"c1", "c2"}
\* raw_data_list, as the data_id of each RawData ("" is an empty data_id).
\* "oid1" is the data_id get_conversation_data gives a record without message_id.
RawDataLists ==
    {<<>>, <<"">>, <<"msg1">>, <<"oid1">>, <<"", "msg2">>, <<"msg1", "msg2">>}
Limits == {1, DefaultLimit}
Facades == {"save", "get", "delete"}

VARIABLES
    store,   \* the collection: a sequence of records, in insertion order
    call,    \* per caller: its latest facade call and how far it got
    ledger,  \* history: documents moved and not yet in a returned count
    last     \* history (sequential runs): the last update call that ended

vars == <<store, call, ledger, last>>

\* ------------------------------------------------------------- helpers
RECURSIVE SetToSeq(_)
\* The indices of S in ascending order: .sort([("created_at", 1)]); a record's
\* created_at is its insertion time, so insertion order is creation order.
SetToSeq(S) ==
    IF S = {} THEN <<>>
    ELSE LET m == CHOOSE x \in S : \A y \in S : x <= y
         IN <<m>> \o SetToSeq(S \ {m})

Take(s, n) == SubSeq(s, 1, IF Len(s) < n THEN Len(s) ELSE n)

\* str(log.id): the record's own identity, as a string.
Oid(i) == "oid" \o ToString(i)

\* ------------------------------------------------- MemoryRequestLog
\* raw_input_str (Optional[str]) and raw_input (Optional[Dict]) by what they
\* hold: kind "none" is None, "empty" is "" or {}, "invalid" is text that is no
\* JSON, "array" is the JSON of a list, "deep" is JSON nested beyond the
\* parser's recursion limit, and "object" is (the JSON of) the dict obj, which
\* only this kind carries.
\* A dict obj holds message_id, sender, content, create_time and group_id
\* (None: the key is missing); fault is the error
\* build_raw_data_from_simple_message raises on what is built from it ("none":
\* it returns).
NoPayload ==
    [message_id |-> None, sender |-> None, content |-> None,
     create_time |-> None, group_id |-> None, fault |-> "none"]
NoRaw == [kind |-> "none"]
ObjectOf(p) == [kind |-> "object", obj |-> p]

\* request_id of the records that are not told apart by it.
RequestId == "r1"

\* A record by the fields the lifecycle and the mapper read, without a
\* message_create_time.  fault is the error build_raw_data_from_simple_message
\* raises on the record's own fields.
MakeLog(g, m, status, sender, content, raw_input_str, raw_input, fault) ==
    [group_id |-> g, request_id |-> RequestId, message_id |-> m,
     message_create_time |-> None, sync_status |-> status,
     sender |-> sender, content |-> content,
     raw_input_str |-> raw_input_str, raw_input |-> raw_input, fault |-> fault]

\* A record as the listener saves it: sync_status takes the field's default.
\* The lifecycle runs are over records that carry no raw payload.
NewLog(g, m) == MakeLog(g, m, LOGGED, None, None, NoRaw, NoRaw, "none")

\* ------------------------------------------- MemoryRequestLogRepository
\* Faulty variants of the queries, to show what the properties below rest on:
\* a find that drops its sync_status filter, confirms that do not require
\* LOGGED, a confirm by ids that ignores the group or the ids, and closes that
\* select only one of the two states.
find_any_status(r, g, sync_status) == r.group_id = g
confirm_any_status(r, g) == r.group_id = g
confirm_ids_any_status(r, g, message_ids) ==
    r.group_id = g /\ r.message_id \in message_ids
confirm_ids_any_group(r, g, message_ids) ==
    r.message_id \in message_ids /\ r.sync_status = LOGGED
confirm_ids_ignored(r, g, message_ids) ==
    r.group_id = g /\ r.sync_status = LOGGED
close_only_accumulating(r, g) == r.group_id = g /\ r.sync_status = ACCUMULATING
close_only_logged(r, g) == r.group_id = g /\ r.sync_status = LOGGED
\* Faulty $set values: a confirm that writes LOGGED, a close that writes
\* ACCUMULATING.
confirm_sets_logged == LOGGED
close_sets_accumulating == ACCUMULATING
\* A faulty update that advances every record of the group by one state
\* instead of setting a state on the records selected.
IncrementsStatus(cl, r) ==
    IF r.group_id = cl.group_id /\ r.sync_status < CONSUMED
    THEN r.sync_status + 1 ELSE r.sync_status

\* The query of each call, decided on one document r.
\* sync_status is Optional[int]: <<>> is None (no filter), <<s>> is the value s.
find_by_group_id_query(r, g, sync_status) ==
    /\ r.group_id = g
    /\ (sync_status # <<>> => r.sync_status = sync_status[1])

confirm_accumulation_by_group_id_query(r, g) ==
    r.group_id = g /\ r.sync_status = LOGGED

confirm_accumulation_by_message_ids_query(r, g, message_ids) ==
    /\ r.group_id = g
    /\ r.message_id \in message_ids
    /\ r.sync_status = LOGGED

mark_as_used_by_group_id_query(r, g) ==
    r.group_id = g /\ r.sync_status \in {LOGGED, ACCUMULATING}

\* The {"$set": {"sync_status": ...}} of each update.
confirm_accumulation_set == ACCUMULATING
mark_as_used_set == CONSUMED

\* ------------------------------------- ConversationDataRepositoryImpl
\* A faulty list of ids that keeps the empty data_id.
AllDataIds(raw_data_list) ==
    {raw_data_list[k] : k \in DOMAIN raw_data_list}

\* message_ids = [r.data_id for r in (raw_data_list or []) if r.data_id]
MessageIdsOf(raw_data_list) ==
    {raw_data_list[k] : k \in DOMAIN raw_data_list} \ {"", None}

\* A faulty save_conversation_data that confirms the whole group whatever the
\* message_ids.
bulk_path_only(facade, raw_data_list) ==
    CASE facade = "save" -> "confirm_accumulation_by_group_id"
      [] facade = "delete" -> "mark_as_used_by_group_id"
      [] OTHER -> "find_by_group_id"

\* The repository method a facade call ends in.
RepoMethod(facade, raw_data_list) ==
    CASE facade = "save" ->
            IF MessageIdsOf(raw_data_list) # {}
            THEN "confirm_accumulation_by_message_ids"
            ELSE "confirm_accumulation_by_group_id"
      [] facade = "delete" -> "mark_as_used_by_group_id"
      [] OTHER -> "find_by_group_id"

Method(cl) == RepoMethod(cl.facade, cl.raw_data_list)
ConfirmMethods ==
    {"confirm_accumulation_by_message_ids", "confirm_accumulation_by_group_id"}
Kind(cl) == IF Method(cl) \in ConfirmMethods THEN "confirm" ELSE "close"

\* Whether the call's query selects document r now.
Selects(cl, r) ==
    CASE Method(cl) = "confirm_accumulation_by_message_ids" ->
            confirm_accumulation_by_message_ids_query(
                r, cl.group_id, MessageIdsOf(cl.raw_data_list))
      [] Method(cl) = "confirm_accumulation_by_group_id" ->
            confirm_accumulation_by_group_id_query(r, cl.group_id)
      [] Method(cl) = "mark_as_used_by_group_id" ->
            mark_as_used_by_group_id_query(r, cl.group_id)
      [] OTHER -> find_by_group_id_query(r, cl.group_id, <<ACCUMULATING>>)

SetValue(cl) ==
    IF Kind(cl) = "confirm" THEN confirm_accumulation_set ELSE mark_as_used_set

\* The sync_status the call's update_many leaves on document r: the $set value
\* if the query selects r now, r's own otherwise.
UpdateResult(cl, r) ==
    IF Selects(cl, r) THEN SetValue(cl) ELSE r.sync_status

\* ------------------------------------------------ MemoryRequestLogMapper
\* Python truthiness of an Optional[str].
Truthy(x) == x \notin {None, ""}
\* x or "".
OrEmpty(x) == IF x = None THEN "" ELSE x

\* A RawData by the fields the claims read.  timestamp is <<>> for None and
\* <<t>> for the time t; extra_metadata is <<>> for None and <<r>> for
\* {"request_id": r}.
RawDataOf(message_id, sender, content, group_id, timestamp, extra_metadata) ==
    [data_id |-> message_id, sender |-> sender, content |-> content,
     group_id |-> group_id, timestamp |-> timestamp,
     extra_metadata |-> extra_metadata]
NoRawData == RawDataOf(None, None, None, None, <<>>, <<>>)

\* The outcome of a call: it raised the error `raised`, or it returned: the
\* value `value` if `some`, None otherwise.
Raise(err) == [raised |-> err, some |-> FALSE, value |-> NoRawData]
ReturnNone == [raised |-> "none", some |-> FALSE, value |-> NoRawData]
ReturnValue(v) == [raised |-> "none", some |-> TRUE, value |-> v]

\* build_raw_data_from_simple_message: it returns the RawData of its
\* arguments, or raises the fault of what it is given.
build_raw_data_from_simple_message(message_id, sender, content, timestamp, group_id, extra_metadata, fault) ==
    IF fault # "none" THEN Raise(fault)
    ELSE ReturnValue(RawDataOf(message_id, sender, content, group_id,
                               timestamp, extra_metadata))

\* from_iso_format(s, UTC): the texts that are ISO-8601 times, the error it
\* raises on any other, and the time it returns, in the zone it is given.
IsoTexts == {"t1", "t2", "t3"}
from_iso_format_raises(s) == IF s \in IsoTexts THEN "none" ELSE "ValueError"
from_iso_format(s) == <<s, "UTC">>

\* A faulty timestamp parsing that catches nothing.
CaughtNothing == {}

\* The errors the except clauses around from_iso_format catch (ValueError,
\* TypeError), the error that leaves the parsing of create_time s, and the
\* timestamp the parsing gives: None when s is missing or empty and when the
\* parsing failed.
CaughtByTimestamp == {"ValueError", "TypeError"}
timestamp_raises(s) ==
    IF Truthy(s) /\ from_iso_format_raises(s) \notin CaughtByTimestamp
    THEN from_iso_format_raises(s) ELSE "none"
timestamp_of(s) ==
    IF Truthy(s) /\ from_iso_format_raises(s) = "none"
    THEN <<from_iso_format(s)>> ELSE <<>>

\* json.loads(raw_input_str): the error it raises ("none": it returns the
\* parsed value).  JSONDecodeError is a ValueError; RecursionError is not.
json_loads_raises(raw) ==
    CASE raw.kind = "invalid" -> "ValueError"
      [] raw.kind = "deep" -> "RecursionError"
      [] OTHER -> "none"

\* _convert_simple_message_to_raw_data(message_data, request_id).
convert_simple_message_to_raw_data(message_data, request_id) ==
    IF message_data.kind # "object" THEN ReturnNone
    ELSE LET d == message_data.obj
         IN IF ~Truthy(d.message_id) \/ ~Truthy(d.sender) THEN ReturnNone
            ELSE IF timestamp_raises(d.create_time) # "none"
            THEN Raise(timestamp_raises(d.create_time))
            ELSE build_raw_data_from_simple_message(
                     d.message_id, d.sender, OrEmpty(d.content),
                     timestamp_of(d.create_time), d.group_id,
                     IF Truthy(request_id) THEN <<request_id>> ELSE <<>>,
                     d.fault)

\* A faulty _build_from_fields that passes the fields on as they are.
fields_without_defaults(i, log) ==
    RawDataOf(log.message_id, log.sender, log.content, log.group_id,
              timestamp_of(log.message_create_time), <<log.request_id>>)

\* _build_from_fields(log), of the record at index i.
build_from_fields(i, log) ==
    RawDataOf(IF Truthy(log.message_id) THEN log.message_id ELSE Oid(i),
              OrEmpty(log.sender), OrEmpty(log.content), log.group_id,
              timestamp_of(log.message_create_time), <<log.request_id>>)

\* The errors the except clause of to_raw_data's first strategy catches
\* (JSONDecodeError, ValueError, TypeError), and those to_raw_data_list's
\* catches (ValueError, TypeError).
CaughtByStrategy1 == {"ValueError", "TypeError"}
CaughtByList == {"ValueError", "TypeError"}

\* to_raw_data(log), of the record at index i, strategy by strategy.
Strategy3(i, log) ==
    IF timestamp_raises(log.message_create_time) # "none"
    THEN Raise(timestamp_raises(log.message_create_time))
    ELSE IF log.fault # "none" THEN Raise(log.fault)
    ELSE ReturnValue(build_from_fields(i, log))

Strategy2(i, log) ==
    IF log.raw_input.kind \in {"none", "empty"} THEN Strategy3(i, log)
    ELSE LET r == convert_simple_message_to_raw_data(log.raw_input,
                                                     log.request_id)
         IN IF r.raised # "none" \/ r.some THEN r ELSE Strategy3(i, log)

\* A faulty to_raw_data that starts from raw_input.
raw_input_first(i, log) == Strategy2(i, log)

to_raw_data(i, log) ==
    IF log.raw_input_str.kind \in {"none", "empty"} THEN Strategy2(i, log)
    ELSE IF json_loads_raises(log.raw_input_str) \in CaughtByStrategy1
         THEN Strategy2(i, log)
    ELSE IF json_loads_raises(log.raw_input_str) # "none"
         THEN Raise(json_loads_raises(log.raw_input_str))
    ELSE LET r == convert_simple_message_to_raw_data(log.raw_input_str,
                                                     log.request_id)
         IN IF r.raised \in CaughtByStrategy1 THEN Strategy2(i, log)
            ELSE IF r.raised # "none" \/ r.some THEN r
            ELSE Strategy2(i, log)

\* to_raw_data_list over the records found, in their order: the error that
\* escapes it ("none": it returns), and the list it returns, without the
\* records whose conversion raised an error it catches.
RECURSIVE to_raw_data_list_raises(_, _)
to_raw_data_list_raises(logs, st) ==
    IF logs = <<>> THEN "none"
    ELSE LET r == to_raw_data(Head(logs), st[Head(logs)])
         IN IF r.raised \notin CaughtByList \cup {"none"} THEN r.raised
            ELSE to_raw_data_list_raises(Tail(logs), st)

RECURSIVE to_raw_data_list(_, _)
to_raw_data_list(logs, st) ==
    IF logs = <<>> THEN <<>>
    ELSE LET r == to_raw_data(Head(logs), st[Head(logs)])
         IN (IF r.some THEN <<r.value>> ELSE <<>>)
            \o to_raw_data_list(Tail(logs), st)

\* ------------------------------------------------------------ the state
\* A caller's facade call.  While the update_many runs (pc = "run") the store
\* has visited the documents 1..pos of the 1..upto it will visit, and
\* modified_count is the store's count so far.  When the call has returned
\* (pc = "done") result, or data for get_conversation_data, is what the facade
\* returned; logs is what find_by_group_id returned, error is what raised,
\* upto is the extent of the scan of an update_many that returned, and args
\* is the <<start_time, end_time, limit>> of a get_conversation_data.
IdleCall ==
    [pc |-> "idle", facade |-> "none", group_id |-> None,
     raw_data_list |-> <<>>, pos |-> 0, upto |-> 0, modified_count |-> 0,
     retry |-> FALSE, after_close |-> FALSE,
     error |-> "none", result |-> FALSE, logs |-> <<>>, data |-> <<>>,
     args |-> <<>>]

\* What a facade call leaves behind when it returns.
Returned(facade, g, error, result, logs, data, after_close) ==
    [IdleCall EXCEPT
       !.pc = "done", !.facade = facade, !.group_id = g, !.error = error,
       !.result = result, !.logs = logs, !.data = data,
       !.after_close = after_close]

\* ledger[k]: the documents that made k's transition and that no call of kind
\* k has answered for yet, by the count it returned or by raising.
ZeroLedger == [confirm |-> 0, close |-> 0]

\* No update call has ended since the last insert.  before is the
\* sync_status of each record when the update call that runs, or that ended,
\* began.
NoLast ==
    [facade |-> "none", group_id |-> None, raw_data_list |-> <<>>,
     modified_count |-> 0, applied |-> FALSE, error |-> "none",
     retry |-> FALSE, before |-> <<>>]

Init ==
    /\ store = <<>>
    /\ call = [c \in Callers |-> IdleCall]
    /\ ledger = ZeroLedger
    /\ last = NoLast

Running(c) == call[c].pc = "run"
Quiet == \A c \in Callers : ~Running(c)

\* The call <<f, g, msgs>> repeats the last update call, which was applied in
\* full, with nothing inserted since.
IsRetry(f, g, msgs) ==
    /\ last.applied
    /\ last.facade = f /\ last.group_id = g /\ last.raw_data_list = msgs

\* The last update call was a close of g applied in full and returned, with
\* nothing inserted since.
IsAfterClose(g) ==
    /\ last.applied /\ last.error = "none"
    /\ last.facade = "delete" /\ last.group_id = g

\* ------------------------------------------------------------- actions
\* The listener saves a record (MemoryRequestLogRepository.save).  An update in
\* flight that has the whole collection in its scan may or may not come to see
\* the new document: S is the set of running calls that will.
Insert(g, m, S) ==
    /\ Len(store) < MaxRecords
    /\ \A c \in S : Running(c) /\ call[c].upto = Len(store)
    /\ store' = Append(store, NewLog(g, m))
    /\ call' = [c \in Callers |->
                  IF c \in S
                  THEN [call[c] EXCEPT !.upto = Len(store) + 1]
                  ELSE call[c]]

\* delete_by_group_id: what is left of the collection st when the records of
\* group g are deleted.  No facade method calls it.
delete_by_group_id(st, g) == SelectSeq(st, LAMBDA r : r.group_id # g)

\* A faulty delete_conversation_data that deletes the records of the group.
BeginDeletes(c, f, g, msgs) ==
    /\ ~Running(c)
    /\ f \in {"save", "delete"}
    /\ store' = IF f = "delete" THEN delete_by_group_id(store, g) ELSE store
    /\ call' = [call EXCEPT ![c] =
                  [IdleCall EXCEPT
                     !.pc = "run", !.facade = f, !.group_id = g,
                     !.raw_data_list = msgs, !.upto = Len(store')]]

\* A caller enters save_conversation_data or delete_conversation_data;
\* _get_repo() returns the repository and the repository method issues its
\* update_many over the records there are.
Begin(c, f, g, msgs) ==
    /\ ~Running(c)
    /\ f \in {"save", "delete"}
    /\ call' = [call EXCEPT ![c] =
                  [IdleCall EXCEPT
                     !.pc = "run", !.facade = f, !.group_id = g,
                     !.raw_data_list = msgs, !.upto = Len(store),
                     !.retry = IsRetry(f, g, msgs)]]
    /\ UNCHANGED store

\* A caller enters a facade method and the facade's own try block raises before
\* the repository is called (get_bean fails): the except branch answers False,
\* or [] for get_conversation_data.
FacadeRaises(c, f, g) ==
    /\ ~Running(c)
    /\ call' = [call EXCEPT ![c] =
                  Returned(f, g, "facade", FALSE, <<>>, <<>>, FALSE)]
    /\ UNCHANGED store

\* The store visits the next document of an update_many: the document is
\* changed if the query selects it now, and counted if the $set changed it.
UpdateOne(c) ==
    LET cl == call[c]
        i == cl.pos + 1
        r == store[i]
        new == UpdateResult(cl, r)
    IN
    /\ Running(c)
    /\ cl.pos < cl.upto
    /\ store' = [store EXCEPT ![i].sync_status = new]
    /\ call' = [call EXCEPT
                  ![c].pos = i,
                  ![c].modified_count =
                      IF new # r.sync_status THEN @ + 1 ELSE @]

\* A faulty facade that takes a count of 0 for a failure.
ReturnFalseOnZero(c) ==
    LET cl == call[c]
    IN
    /\ Running(c)
    /\ cl.pos = cl.upto
    /\ call' = [call EXCEPT ![c] =
                  [Returned(cl.facade, cl.group_id, "none",
                            cl.modified_count > 0, <<>>, <<>>, FALSE)
                   EXCEPT !.upto = cl.upto]]
    /\ UNCHANGED store

\* The update_many returns; the repository method returns modified_count, the
\* facade logs it and returns True.
Return(c) ==
    LET cl == call[c]
    IN
    /\ Running(c)
    /\ cl.pos = cl.upto
    /\ call' = [call EXCEPT ![c] =
                  [Returned(cl.facade, cl.group_id, "none", TRUE, <<>>, <<>>,
                            FALSE) EXCEPT !.upto = cl.upto]]
    /\ UNCHANGED store

\* What the repository method returns when its update_many raises.
CountOnError == 0

\* The update_many raises.  The repository method's except branch returns 0,
\* so the facade sees a normal return and returns True.
StoreRaises(c) ==
    LET cl == call[c]
    IN
    /\ Running(c)
    /\ call' = [call EXCEPT ![c] =
                  Returned(cl.facade, cl.group_id, "store", TRUE, <<>>, <<>>,
                           FALSE)]
    /\ UNCHANGED store

\* created_at of the record at index i: the time the listener inserted it.
created_at(i) == i
\* start_time and end_time as a caller passes them (Optional[str]): None, an
\* empty string, the ISO text of a time, or text that is no time.
Times == 1..MaxRecords
TimeStrings == {ToString(t) : t \in Times}
TimeArgs == {None, "", "bad"} \cup TimeStrings

\* _normalize_datetime_for_storage(s): the time s denotes; it raises when s
\* denotes none.
normalize_datetime_for_storage_raises(s) == s \notin TimeStrings
\* (0 stands for the value of a call that raised, which nothing reads.)
normalize_datetime_for_storage(s) ==
    IF s \in TimeStrings THEN CHOOSE t \in Times : ToString(t) = s ELSE 0

\* _normalize_datetime_for_storage(t) if t else None, as an Optional: <<>> is
\* None.
NormalizedOrNone(t) ==
    IF Truthy(t) THEN <<normalize_datetime_for_storage(t)>> ELSE <<>>

\* A faulty facade that takes a time it cannot normalise for no bound, or for
\* whatever the normalisation left.
TimesNeverRaise(start_time, end_time) == FALSE

\* The normalisation of start_time or of end_time raises.
TimesRaise(start_time, end_time) ==
    \/ Truthy(start_time) /\ normalize_datetime_for_storage_raises(start_time)
    \/ Truthy(end_time) /\ normalize_datetime_for_storage_raises(end_time)

\* Faulty variants: bounds that exclude the times they name, and a find that
\* limits before it sorts oldest first.
created_at_exclusive(t, start_time, end_time) ==
    /\ (start_time # <<>> => t > start_time[1])
    /\ (end_time # <<>> => t < end_time[1])

\* The created_at part of find_by_group_id's query: $gte start_time and $lte
\* end_time, each if given.
created_at_query(t, start_time, end_time) ==
    /\ (start_time # <<>> => t >= start_time[1])
    /\ (end_time # <<>> => t <= end_time[1])

\* get_conversation_data(group_id, start_time, end_time, limit): the times are
\* normalised, find_by_group_id reads the records of the group that are
\* ACCUMULATING and within the times, oldest first, at most limit of them, and
\* the mapper turns them into RawData.  Whatever raises on the way, the except
\* branch returns [].
GetRange(c, g, start_time, end_time, lim) ==
    LET cl == [IdleCall EXCEPT !.facade = "get", !.group_id = g]
        bad == TimesRaise(start_time, end_time)
        hits == {i \in 1..Len(store) :
                    /\ Selects(cl, store[i])
                    /\ created_at_query(created_at(i),
                                        NormalizedOrNone(start_time),
                                        NormalizedOrNone(end_time))}
        logs == Take(SetToSeq(hits), lim)
    IN
    /\ ~Running(c)
    /\ call' = [call EXCEPT ![c] =
                  [(IF bad
                    THEN Returned("get", g, "facade", FALSE, <<>>, <<>>,
                                  IsAfterClose(g))
                    ELSE IF to_raw_data_list_raises(logs, store) # "none"
                    THEN Returned("get", g, "mapper", TRUE, logs, <<>>,
                                  IsAfterClose(g))
                    ELSE Returned("get", g, "none", TRUE, logs,
                                  to_raw_data_list(logs, store),
                                  IsAfterClose(g)))
                   EXCEPT !.args = <<start_time, end_time, lim>>]]
    /\ UNCHANGED store

\* get_conversation_data(group_id, limit=lim): no start_time, no end_time.
Get(c, g, lim) == GetRange(c, g, None, None, lim)

\* get_conversation_data when the find raises: find_by_group_id's except branch
\* returns [], and the facade returns the mapping of [].
GetStoreRaises(c, g) ==
    /\ ~Running(c)
    /\ call' = [call EXCEPT ![c] =
                  Returned("get", g, "store", TRUE, <<>>,
                           to_raw_data_list(<<>>, store), IsAfterClose(g))]
    /\ UNCHANGED store

\* ------------------------------------------------------- specifications
\* The update calls a caller can make, <<facade, group_id, raw_data_list>>, and
\* the records a listener can save, <<group_id, message_id>>.
AllUpdates ==
    ({"save"} \X Groups \X RawDataLists) \cup ({"delete"} \X Groups \X {<<>>})
AllLogs == Groups \X RecordMessageIds

\* The history of the concurrent runs, step by step.
\* UpdateOne(c): a document that made a transition is to be answered for.
Moved(c) ==
    LET i == call[c].pos + 1
    IN ledger' =
         IF store[i].sync_status = LOGGED /\ store'[i].sync_status = ACCUMULATING
         THEN [ledger EXCEPT !.confirm = @ + 1]
         ELSE IF store[i].sync_status # CONSUMED
                 /\ store'[i].sync_status = CONSUMED
         THEN [ledger EXCEPT !.close = @ + 1]
         ELSE ledger

\* Return(c): the count returned pays for the documents it counts.
Counted(c) ==
    LET cl == call[c]
    IN ledger' = [ledger EXCEPT ![Kind(cl)] = @ - cl.modified_count]

\* StoreRaises(c): the count returned is CountOnError, and the documents the
\* call had changed are in no count.
Dropped(c) ==
    LET cl == call[c]
    IN ledger' = [ledger EXCEPT ![Kind(cl)] = @ - cl.modified_count]

\* Spec: any interleaving of the listener and of callers working on group g1,
\* with records of g2 beside those of g1.
ConcUpdates == {a \in AllUpdates : a[2] = "g1" /\ a[3] \in {<<>>, <<"msg1">>}}
ConcLogs == {<<"g1", "msg1">>, <<"g1", None>>, <<"g2", "msg1">>}

Next ==
    \/ \E l \in ConcLogs, S \in SUBSET Callers :
          Insert(l[1], l[2], S) /\ UNCHANGED <<ledger, last>>
    \/ \E c \in Callers, a \in ConcUpdates :
          Begin(c, a[1], a[2], a[3]) /\ UNCHANGED <<ledger, last>>
    \/ \E c \in Callers, f \in Facades :
          FacadeRaises(c, f, "g1") /\ UNCHANGED <<ledger, last>>
    \/ \E c \in Callers :
          UpdateOne(c) /\ Moved(c) /\ UNCHANGED last
    \/ \E c \in Callers : Return(c) /\ Counted(c) /\ UNCHANGED last
    \/ \E c \in Callers :
          StoreRaises(c) /\ Dropped(c) /\ UNCHANGED last
    \/ \E c \in Callers :
          Get(c, "g1", DefaultLimit) /\ UNCHANGED <<ledger, last>>
    \/ \E c \in Callers :
          GetStoreRaises(c, "g1") /\ UNCHANGED <<ledger, last>>

Spec == Init /\ [][Next]_vars

\* SpecSeq: one caller, one call at a time, inserts between the calls; every
\* raw_data_list and limit on g1, whose records carry every message_id, and g2
\* beside it with a record of a message_id that g1 has too.  last is the update
\* call that ended, as long as nothing else happened since.
SeqLogs == {l \in AllLogs : l[1] = "g1" \/ l[2] = "msg1"}
SeqUpdates == {a \in AllUpdates : a[2] = "g1" \/ a[3] \in {<<>>, <<"msg1">>}}
SeqReads == {<<"g1", 1>>, <<"g1", DefaultLimit>>, <<"g2", DefaultLimit>>}
StatusOf(st) == [i \in 1..Len(st) |-> st[i].sync_status]
Ended(cl, error) ==
    [facade |-> cl.facade, group_id |-> cl.group_id,
     raw_data_list |-> cl.raw_data_list,
     modified_count |-> IF error = "none" THEN cl.modified_count
                        ELSE CountOnError,
     applied |-> (cl.pos = cl.upto), error |-> error, retry |-> cl.retry,
     before |-> last.before]

NextSeq ==
    \/ \E l \in SeqLogs :
          /\ Quiet /\ Insert(l[1], l[2], {})
          /\ last' = NoLast /\ UNCHANGED ledger
    \/ \E a \in SeqUpdates :
          /\ Begin("c1", a[1], a[2], a[3])
          /\ last' = [NoLast EXCEPT !.before = StatusOf(store)]
          /\ UNCHANGED ledger
    \/ \E f \in Facades :
          FacadeRaises("c1", f, "g1") /\ UNCHANGED <<ledger, last>>
    \/ UpdateOne("c1") /\ Moved("c1") /\ UNCHANGED last
    \/ /\ Return("c1") /\ Counted("c1")
       /\ last' = Ended(call["c1"], "none")
    \/ /\ StoreRaises("c1") /\ Dropped("c1")
       /\ last' = Ended(call["c1"], "store")
    \/ \E a \in SeqReads :
          /\ Get("c1", a[1], a[2])
          /\ last' = NoLast /\ UNCHANGED ledger
    \/ \E g \in Groups :
          /\ GetStoreRaises("c1", g)
          /\ last' = NoLast /\ UNCHANGED ledger

SpecSeq == Init /\ [][NextSeq]_vars

\* SpecRead: get_conversation_data, with every start_time, end_time and limit,
\* on every collection of up to MaxRecords records in any state of the
\* lifecycle, and its failures.
SeqsUpTo(S, n) == UNION {[1..k -> S] : k \in 0..n}
ReadLogs ==
    {[NewLog("g1", "msg1") EXCEPT !.sync_status = st] :
        st \in {LOGGED, ACCUMULATING, CONSUMED}}
    \cup {[NewLog("g1", None) EXCEPT !.sync_status = ACCUMULATING],
          [NewLog("g2", "msg1") EXCEPT !.sync_status = ACCUMULATING]}

InitRead ==
    /\ store \in SeqsUpTo(ReadLogs, MaxRecords)
    /\ call = [c \in Callers |-> IdleCall]
    /\ ledger = ZeroLedger
    /\ last = NoLast

NextRead ==
    \/ \E g \in Groups, st \in TimeArgs, en \in TimeArgs, lim \in Limits :
          /\ call["c1"] = IdleCall
          /\ GetRange("c1", g, st, en, lim) /\ UNCHANGED <<ledger, last>>
    \/ \E g \in Groups :
          /\ call["c1"] = IdleCall
          /\ GetStoreRaises("c1", g) /\ UNCHANGED <<ledger, last>>
    \/ \E g \in Groups :
          /\ call["c1"] = IdleCall
          /\ FacadeRaises("c1", "get", g) /\ UNCHANGED <<ledger, last>>

SpecRead == InitRead /\ [][NextRead]_vars

\* SpecMap: the mapper on its own.  The collection holds either one record,
\* with every combination of what raw_input_str, raw_input and the discrete
\* fields can hold, or a batch of up to MaxRecords + 1 records of a few kinds;
\* to_raw_data is applied to a record, to_raw_data_list to the whole batch,
\* and get_conversation_data reads the collection.

\* What a payload's fields and a builder's fault can be.
Faults == {"none", "ValueError", "KeyError"}
StrObjects ==
    [message_id : {None, "", "m1"}, sender : {None, "u1"},
     content : {None, "hi"}, create_time : {None}, group_id : {None},
     fault : Faults]
InputObjects ==
    [message_id : {None, "m2"}, sender : {None, "u2"},
     content : {"yo"}, create_time : {None}, group_id : {None},
     fault : Faults]

\* raw_input_str (Optional[str]): absent, "", text that is no JSON, the JSON
\* of an array, JSON nested deeper than the parser recurses, and the JSON of
\* an object.  raw_input (Optional[Dict]): absent, {} and an object.
RawInputStrs ==
    {NoRaw} \cup {[kind |-> k] :
                    k \in {"empty", "invalid", "array", "deep"}}
    \cup {ObjectOf(p) : p \in StrObjects}
RawInputs ==
    {NoRaw, [kind |-> "empty"]}
    \cup {ObjectOf(p) : p \in InputObjects}

MapLogs ==
    {MakeLog("g1", m, ACCUMULATING, sender, content, rs, ri, fault) :
        m \in {None, "", "msg1"}, sender \in {None, "u3"},
        content \in {None, "bye"}, rs \in RawInputStrs, ri \in RawInputs,
        fault \in Faults}

\* Records whose three sources each yield a message, with every create_time
\* (missing, empty, no ISO-8601 text, a time) in each.
Message1 ==
    [NoPayload EXCEPT !.message_id = "m1", !.sender = "u1", !.content = "hi"]
Message2 ==
    [NoPayload EXCEPT !.message_id = "m2", !.sender = "u2", !.content = "yo"]
TimeLogs ==
    {[MakeLog("g1", "msg1", ACCUMULATING, "u3", "bye", rs, ri, "none")
        EXCEPT !.message_create_time = t] :
        rs \in {NoRaw} \cup {ObjectOf([Message1 EXCEPT !.create_time = t1]) :
                                t1 \in {None, "", "bad", "t1"}},
        ri \in {NoRaw} \cup {ObjectOf([Message2 EXCEPT !.create_time = t2]) :
                                t2 \in {None, "bad", "t2"}},
        t \in {None, "", "bad", "t3"}}

\* Records of g1 whose payloads name no group, g1 or another group, with an
\* empty and a non-empty request_id.
MetaLogs ==
    {[MakeLog("g1", "msg1", ACCUMULATING, "u3", "bye", rs, ri, "none")
        EXCEPT !.request_id = rid] :
        rs \in {NoRaw} \cup {ObjectOf([Message1 EXCEPT !.group_id = g]) :
                                g \in {None, "g1", "g2"}},
        ri \in {NoRaw} \cup {ObjectOf([Message2 EXCEPT !.group_id = g]) :
                                g \in {None, "g1", "g2"}},
        rid \in {"", "r2"}}

\* The records of a batch: one the first strategy converts, one the third
\* converts, one whose first strategy raises an error it catches, and three
\* whose conversion raises: a ValueError, a KeyError, a RecursionError.
BatchLogs ==
    {MakeLog("g1", None, ACCUMULATING, None, None,
             ObjectOf([NoPayload EXCEPT !.message_id = "m1", !.sender = "u1",
                                 !.content = "hi", !.fault = "none"]),
             NoRaw, "none"),
     MakeLog("g1", None, ACCUMULATING, "u3", "bye", NoRaw, NoRaw, "none"),
     MakeLog("g1", "msg1", ACCUMULATING, "u3", None,
             ObjectOf([NoPayload EXCEPT !.message_id = "m1", !.sender = "u1",
                                 !.content = "hi", !.fault = "ValueError"]),
             NoRaw, "none"),
     MakeLog("g1", "msg1", ACCUMULATING, "u3", "bye", NoRaw, NoRaw,
             "ValueError"),
     MakeLog("g1", "msg1", ACCUMULATING, "u3", "bye", NoRaw, NoRaw,
             "KeyError"),
     MakeLog("g1", "msg1", ACCUMULATING, "u3", "bye",
             [kind |-> "deep"], NoRaw, "none")}

InitMap ==
    /\ store \in {<<log>> : log \in MapLogs \cup TimeLogs \cup MetaLogs}
                 \cup SeqsUpTo(BatchLogs, MaxRecords + 1)
    /\ call = [c \in Callers |-> IdleCall]
    /\ ledger = ZeroLedger
    /\ last = NoLast

\* MemoryRequestLogMapper.to_raw_data(log) on the record at index i: what it
\* raised, whether it returned a RawData, and the RawData.
CallToRawData(c, i) ==
    LET r == to_raw_data(i, store[i])
    IN /\ call[c] = IdleCall
       /\ call' = [call EXCEPT ![c] =
                     Returned("to_raw_data", store[i].group_id, r.raised,
                              r.some, <<i>>,
                              IF r.some THEN <<r.value>> ELSE <<>>, FALSE)]
       /\ UNCHANGED store

\* MemoryRequestLogMapper.to_raw_data_list(logs) on the whole collection: the
\* error that escaped it, or the list it returned.
CallToRawDataList(c) ==
    LET logs == [i \in 1..Len(store) |-> i]
        err == to_raw_data_list_raises(logs, store)
    IN /\ call[c] = IdleCall
       /\ call' = [call EXCEPT ![c] =
                     Returned("to_raw_data_list", None, err, err = "none",
                              logs,
                              IF err = "none"
                              THEN to_raw_data_list(logs, store) ELSE <<>>,
                              FALSE)]
       /\ UNCHANGED store

NextMap ==
    \/ \E i \in 1..Len(store) :
          CallToRawData("c1", i) /\ UNCHANGED <<ledger, last>>
    \/ CallToRawDataList("c1") /\ UNCHANGED <<ledger, last>>
    \/ \E g \in Groups :
          /\ call["c1"] = IdleCall
          /\ Get("c1", g, DefaultLimit) /\ UNCHANGED <<ledger, last>>

SpecMap == InitMap /\ [][NextMap]_vars

\* ------------------------------------------------------------ properties
ByGroup == "confirm_accumulation_by_group_id"
ByIds == "confirm_accumulation_by_message_ids"
MarkUsed == "mark_as_used_by_group_id"

\* The modified_count the running calls of kind k have reached, summed.
RECURSIVE InFlight(_, _)
InFlight(S, k) ==
    IF S = {} THEN 0
    ELSE LET c == CHOOSE x \in S : TRUE
         IN (IF Running(c) /\ Kind(call[c]) = k
             THEN call[c].modified_count ELSE 0) + InFlight(S \ {c}, k)

\* C1: in every interleaving of inserts and of the three update calls, no step
\* lowers a record's sync_status, and a record that is CONSUMED is CONSUMED in
\* the next state too.
C1_NeverRegresses ==
    [][\A i \in 1..Len(store) :
          /\ store'[i].sync_status >= store[i].sync_status
          /\ (store[i].sync_status = CONSUMED
                => store'[i].sync_status = CONSUMED)]_vars

\* A confirm of the whole group has visited a record of it that is CONSUMED.
C1_Witness ==
    \E c \in Callers :
        /\ Running(c) /\ Method(call[c]) = ByGroup /\ call[c].pos >= 1
        /\ store[call[c].pos].group_id = call[c].group_id
        /\ store[call[c].pos].sync_status = CONSUMED

\* C2: whatever get_conversation_data(G) returns was built by the mapper from
\* records of G whose sync_status was ACCUMULATING at the read; no LOGGED and
\* no CONSUMED record is returned.
C2_ReadsOnlyAccumulating ==
    [][\A a \in SeqReads :
          (/\ call'["c1"].facade = "get" /\ call'["c1"].group_id = a[1]
           /\ call'["c1"].args = <<None, None, a[2]>>
           /\ store' = store /\ Get("c1", a[1], a[2])) =>
              /\ call'["c1"].data = to_raw_data_list(call'["c1"].logs, store)
              /\ \A k \in DOMAIN call'["c1"].logs :
                    LET i == call'["c1"].logs[k]
                    IN /\ store[i].group_id = a[1]
                       /\ store[i].sync_status = ACCUMULATING
      ]_vars

\* A read returned a record of a group that also has a record that is not
\* ACCUMULATING.
C2_Witness ==
    /\ call["c1"].pc = "done" /\ call["c1"].facade = "get"
    /\ call["c1"].error = "none" /\ call["c1"].logs # <<>>
    /\ \E i \in 1..Len(store) :
          /\ store[i].group_id = call["c1"].group_id
          /\ store[i].sync_status # ACCUMULATING

C4_OneProgression ==
    /\ [](\A c \in Callers :
            (call[c].pc = "done" /\ call[c].facade = "delete"
             /\ call[c].error = "none")
            => \A i \in 1..call[c].upto :
                  store[i].group_id = call[c].group_id
                  => store[i].sync_status = CONSUMED)
    /\ [][\A i \in 1..Len(store) :
            \/ store'[i].sync_status = store[i].sync_status
            \/ <<store[i].sync_status, store'[i].sync_status>> \in
                 {<<LOGGED, ACCUMULATING>>, <<ACCUMULATING, CONSUMED>>,
                  <<LOGGED, CONSUMED>>}]_vars

\* A close and a confirm of the same group have both returned, each after a
\* scan of two records of the group.
C4_Witness ==
    \E c, d \in Callers :
        /\ call[c].pc = "done" /\ call[c].facade = "delete"
        /\ call[c].error = "none" /\ call[c].upto = 2
        /\ call[d].pc = "done" /\ call[d].facade = "save"
        /\ call[d].error = "none" /\ call[d].upto = 2
        /\ \A i \in 1..2 : store[i].group_id = call[c].group_id

\* C5: once a delete_conversation_data(G) has returned, a
\* get_conversation_data(G) that starts afterwards, by any caller, returns no
\* record that the close's scan held, whatever saves, reads, deletes and inserts
\* go on beside it.
C5_NoReadAfterClose ==
    [][\A c, d \in Callers :
          (/\ call[d].pc = "done" /\ call[d].facade = "delete"
           /\ call[d].error = "none" /\ call[d].group_id = "g1"
           /\ call'[c].facade = "get" /\ store' = store
           /\ Get(c, "g1", DefaultLimit))
          => \A k \in DOMAIN call'[c].logs :
                call'[c].logs[k] > call[d].upto]_vars

\* A close of a group returned after a scan that held a record of the group,
\* and a read of the group returned a record inserted later.
C5_Witness ==
    \E c, d \in Callers :
        /\ call[d].pc = "done" /\ call[d].facade = "delete"
        /\ call[d].error = "none" /\ call[d].upto >= 1
        /\ store[1].group_id = call[d].group_id
        /\ call[c].pc = "done" /\ call[c].facade = "get"
        /\ call[c].group_id = call[d].group_id
        /\ call[c].logs # <<>>
        /\ \A k \in DOMAIN call[c].logs : call[c].logs[k] > call[d].upto

\* C6: confirm_accumulation_by_group_id(G) moves each LOGGED record of G it
\* visits to ACCUMULATING; when it has returned, no record of G is LOGGED and
\* the count it returned is the number of records it changed; a second call
\* right after it, nothing inserted in between, changes no record and returns 0.
C6_ConfirmGroup ==
    /\ []((/\ RepoMethod(last.facade, last.raw_data_list) = ByGroup
           /\ last.error = "none")
          => /\ \A i \in 1..Len(store) :
                   store[i].group_id = last.group_id
                   => store[i].sync_status # LOGGED
             /\ ledger.confirm = 0
             /\ (last.retry => last.modified_count = 0))
    /\ [][(UpdateOne("c1") /\ Method(call["c1"]) = ByGroup)
          => LET i == call["c1"].pos + 1
             IN /\ (/\ store[i].group_id = call["c1"].group_id
                    /\ store[i].sync_status = LOGGED)
                   => store'[i].sync_status = ACCUMULATING
                /\ call["c1"].retry => store' = store]_vars

\* A second confirm of a group, right after the first, has returned, and the
\* group has a record that is ACCUMULATING.
C6_Witness ==
    /\ RepoMethod(last.facade, last.raw_data_list) = ByGroup
    /\ last.error = "none" /\ last.retry
    /\ \E i \in 1..Len(store) :
          /\ store[i].group_id = last.group_id
          /\ store[i].sync_status = ACCUMULATING

\* C7: a step of confirm_accumulation_by_message_ids(G, ids) changes a record
\* only if it is a LOGGED record of G with its message_id in ids, and then to
\* ACCUMULATING; every other record, one without message_id among them, keeps
\* its sync_status.
C7_FrameByIds ==
    [][(Running("c1") /\ Method(call["c1"]) = ByIds)
       => \A i \in 1..Len(store) :
             /\ store'[i] # store[i]
                => /\ store[i].group_id = call["c1"].group_id
                   /\ store[i].message_id \in
                        MessageIdsOf(call["c1"].raw_data_list)
                   /\ store[i].sync_status = LOGGED
                   /\ store'[i].sync_status = ACCUMULATING
             /\ store[i].message_id = None => store'[i] = store[i]]_vars

\* A confirm by ids has visited two records of its group: it changed one and
\* left the other, which has no message_id, LOGGED.
C7_Witness ==
    /\ Running("c1") /\ Method(call["c1"]) = ByIds
    /\ call["c1"].pos = 2 /\ call["c1"].modified_count = 1
    /\ \E i \in 1..2 :
          /\ store[i].group_id = call["c1"].group_id
          /\ store[i].message_id = None
          /\ store[i].sync_status = LOGGED

\* C8: mark_as_used_by_group_id(G) moves each LOGGED or ACCUMULATING record of
\* G it visits to CONSUMED; when it has returned, every record of G is
\* CONSUMED, and a get_conversation_data(G) right after it returns an empty
\* sequence.
C8_CloseThenEmpty ==
    /\ []((last.facade = "delete" /\ last.error = "none")
          => \A i \in 1..Len(store) :
                store[i].group_id = last.group_id
                => store[i].sync_status = CONSUMED)
    /\ []((/\ call["c1"].pc = "done" /\ call["c1"].facade = "get"
           /\ call["c1"].after_close)
          => call["c1"].logs = <<>> /\ call["c1"].data = <<>>)
    /\ [][(UpdateOne("c1") /\ Method(call["c1"]) = MarkUsed)
          => LET i == call["c1"].pos + 1
             IN (/\ store[i].group_id = call["c1"].group_id
                 /\ store[i].sync_status \in {LOGGED, ACCUMULATING})
                => store'[i].sync_status = CONSUMED]_vars

\* A read of a group that has records returned right after a close of the
\* group.
C8_Witness ==
    /\ call["c1"].pc = "done" /\ call["c1"].facade = "get"
    /\ call["c1"].error = "none" /\ call["c1"].after_close
    /\ \E i \in 1..Len(store) : store[i].group_id = call["c1"].group_id

\* C9: a save_conversation_data or delete_conversation_data that repeats the
\* call before it, which the store had applied in full (whether it then
\* returned or raised), changes no record, and its update reports 0 modified.
C9_RetrySafe ==
    /\ []((Running("c1") /\ call["c1"].retry)
          => call["c1"].modified_count = 0)
    /\ [](last.retry => last.modified_count = 0)
    /\ [][(Running("c1") /\ call["c1"].retry) => store' = store]_vars

\* A repeated delete has returned on a group that has a record.
C9_Witness ==
    /\ last.retry /\ last.facade = "delete" /\ last.error = "none"
    /\ \E i \in 1..Len(store) :
          /\ store[i].group_id = last.group_id
          /\ store[i].sync_status = CONSUMED

\* C10: when the update_many behind save_conversation_data or
\* delete_conversation_data raises, the facade returns False.
C10_StoreFailureReported ==
    \A c \in Callers :
        (/\ call[c].pc = "done" /\ call[c].facade \in {"save", "delete"}
         /\ call[c].error = "store")
        => call[c].result = FALSE

\* C11: when get_conversation_data fails below the facade (the find raises,
\* the normalisation of start_time or end_time raises, the repository lookup
\* raises), it returns an empty list and no record changes.
C11_GetFailsEmpty ==
    /\ []((/\ call["c1"].pc = "done" /\ call["c1"].facade = "get"
           /\ call["c1"].error # "none")
          => call["c1"].data = <<>>)
    /\ [][\A g \in Groups, st \in TimeArgs, en \in TimeArgs, lim \in Limits :
            (/\ "bad" \in {st, en} /\ call'["c1"].group_id = g
             /\ call'["c1"].args = <<st, en, lim>>
             /\ GetRange("c1", g, st, en, lim))
            => call'["c1"].data = <<>>]_vars
    /\ [][store' = store]_vars

\* A read of a group that has an ACCUMULATING record failed and returned
\* nothing.
C11_Witness ==
    /\ call["c1"].pc = "done" /\ call["c1"].facade = "get"
    /\ call["c1"].error = "facade" /\ call["c1"].data = <<>>
    /\ \E i \in 1..Len(store) :
          /\ store[i].group_id = call["c1"].group_id
          /\ store[i].sync_status = ACCUMULATING

\* C12: save_conversation_data returns True whenever its update_many
\* returned, whatever the count: also when it modified no record.
C12_SaveTrueOnZero ==
    (/\ call["c1"].pc = "done" /\ call["c1"].facade = "save"
     /\ call["c1"].error = "none")
    => call["c1"].result = TRUE

\* A save that repeats the save before it, on a group that has a record,
\* modified nothing and returned True.
C12_Witness ==
    /\ call["c1"].pc = "done" /\ call["c1"].facade = "save"
    /\ call["c1"].error = "none" /\ call["c1"].result = TRUE
    /\ last.facade = "save" /\ last.error = "none" /\ last.retry
    /\ last.modified_count = 0
    /\ \E i \in 1..Len(store) : store[i].group_id = last.group_id

\* C13: save_conversation_data confirms by ids, with the non-empty data_id of
\* its raw_data_list, if and only if there is one; otherwise (no RawData, or
\* only empty data_id) it confirms the group: each LOGGED record of the group
\* it visits goes to ACCUMULATING.
C13_PathByIds ==
    /\ []((Running("c1") /\ call["c1"].facade = "save")
          => (Method(call["c1"]) = ByIds
              <=> \E k \in DOMAIN call["c1"].raw_data_list :
                     call["c1"].raw_data_list[k] # ""))
    /\ [][(UpdateOne("c1") /\ call["c1"].facade = "save")
          => LET raw == call["c1"].raw_data_list
                 ids == {raw[k] : k \in DOMAIN raw} \ {""}
                 r == store[call["c1"].pos + 1]
             IN store'[call["c1"].pos + 1].sync_status =
                  IF /\ r.group_id = call["c1"].group_id
                     /\ r.sync_status = LOGGED
                     /\ (ids = {} \/ r.message_id \in ids)
                  THEN ACCUMULATING ELSE r.sync_status]_vars

\* A save whose raw_data_list holds only an empty data_id has confirmed a
\* record that has a message_id.
C13_Witness ==
    /\ Running("c1") /\ call["c1"].facade = "save"
    /\ call["c1"].raw_data_list = <<"">>
    /\ call["c1"].pos >= 1 /\ call["c1"].modified_count >= 1
    /\ store[1].message_id = "msg1" /\ store[1].sync_status = ACCUMULATING

\* C14: no facade call adds a record or removes one: a step either is the
\* listener's insert of one new record, or keeps every record, in its place
\* and with its fields, but for its sync_status.
C14_NoAddNoRemove ==
    [][\/ /\ call' = call
          /\ \E l \in AllLogs : store' = Append(store, NewLog(l[1], l[2]))
       \/ /\ Len(store') = Len(store)
          /\ \A i \in 1..Len(store) :
                store'[i] =
                  [store[i] EXCEPT !.sync_status = store'[i].sync_status]
      ]_vars

\* A delete_conversation_data has returned, having changed a record, and the
\* records of its group are in the store.
C14_Witness ==
    /\ last.facade = "delete" /\ last.error = "none"
    /\ last.modified_count >= 1
    /\ \E i \in 1..Len(store) :
          /\ store[i].group_id = last.group_id
          /\ store[i].sync_status = CONSUMED

\* C15: a call on group G changes no record of another group, also when the
\* record carries a message_id that is among the ids of a confirm by ids, and
\* get_conversation_data(G) returns only records of G.
C15_OneGroup ==
    /\ [][\A i \in 1..Len(store) :
            (Running("c1") /\ store[i].group_id # call["c1"].group_id)
            => store'[i] = store[i]]_vars
    /\ []((call["c1"].pc = "done" /\ call["c1"].facade = "get")
          => /\ \A k \in DOMAIN call["c1"].logs :
                   store[call["c1"].logs[k]].group_id = call["c1"].group_id
             /\ \A k \in DOMAIN call["c1"].data :
                   call["c1"].data[k].group_id = call["c1"].group_id)

\* A confirm by ids has visited a LOGGED record of another group whose
\* message_id is among its ids, and has confirmed a record of its own.
C15_Witness ==
    /\ Running("c1") /\ Method(call["c1"]) = ByIds
    /\ call["c1"].modified_count >= 1
    /\ \E i \in 1..call["c1"].pos :
          /\ store[i].group_id # call["c1"].group_id
          /\ store[i].message_id \in MessageIdsOf(call["c1"].raw_data_list)
          /\ store[i].sync_status = LOGGED

\* C16: on group g1 holding A (msg1) and B (msg2), both LOGGED, a confirm by
\* ids of <<msg1>> returns 1 and leaves A ACCUMULATING and B LOGGED; a read of
\* g1 in that store returns the RawData of A alone; a close of g1 in that store
\* returns 2 and leaves A and B CONSUMED; a read of g1 in that store returns
\* nothing.
HoldsAB ==
    /\ Len(store) = 2
    /\ store[1] = [NewLog("g1", "msg1") EXCEPT !.sync_status = store[1].sync_status]
    /\ store[2] = [NewLog("g1", "msg2") EXCEPT !.sync_status = store[2].sync_status]
LastReturned(f, msgs, before) ==
    /\ last.facade = f /\ last.group_id = "g1" /\ last.raw_data_list = msgs
    /\ last.error = "none" /\ last.before = before
ReadReturned ==
    /\ call["c1"].pc = "done" /\ call["c1"].facade = "get"
    /\ call["c1"].group_id = "g1" /\ call["c1"].error = "none"
C16_Scenario ==
    HoldsAB =>
      /\ LastReturned("save", <<"msg1">>, <<LOGGED, LOGGED>>)
         => /\ last.modified_count = 1
            /\ StatusOf(store) = <<ACCUMULATING, LOGGED>>
      /\ (ReadReturned /\ StatusOf(store) = <<ACCUMULATING, LOGGED>>)
         => call["c1"].data = <<RawDataOf("msg1", "", "", "g1", <<>>, <<RequestId>>)>>
      /\ LastReturned("delete", <<>>, <<ACCUMULATING, LOGGED>>)
         => /\ last.modified_count = 2
            /\ StatusOf(store) = <<CONSUMED, CONSUMED>>
      /\ (ReadReturned /\ StatusOf(store) = <<CONSUMED, CONSUMED>>)
         => call["c1"].data = <<>>

\* The close of the scenario has returned: it began with A ACCUMULATING and B
\* LOGGED, as the confirm by ids of <<msg1>> leaves them.
C16_Witness ==
    /\ HoldsAB
    /\ LastReturned("delete", <<>>, <<ACCUMULATING, LOGGED>>)
    /\ last.modified_count = 2
    /\ StatusOf(store) = <<CONSUMED, CONSUMED>>

\* C17: get_conversation_data(G, start_time, end_time, limit) returns the
\* RawData of at most limit records, oldest first, each created within
\* [start_time, end_time] where a bound is given (bounds included): they are
\* the oldest ACCUMULATING records of G in the range, and the mapper keeps
\* their order.
TimeOf(s) == CHOOSE t \in Times : ToString(t) = s
InRange(i, st, en) ==
    /\ (st \in TimeStrings => created_at(i) >= TimeOf(st))
    /\ (en \in TimeStrings => created_at(i) <= TimeOf(en))
C17_OrderedBounded ==
    [][\A g \in Groups, st \in TimeArgs \ {"bad"}, en \in TimeArgs \ {"bad"},
          lim \in Limits :
          (/\ call'["c1"].group_id = g /\ call'["c1"].error = "none"
           /\ call'["c1"].args = <<st, en, lim>>
           /\ GetRange("c1", g, st, en, lim))
          => LET logs == call'["c1"].logs
                 data == call'["c1"].data
                 due == {i \in 1..Len(store) :
                           /\ store[i].group_id = g
                           /\ store[i].sync_status = ACCUMULATING
                           /\ InRange(i, st, en)}
             IN /\ Len(logs) <= lim /\ Len(data) <= lim
                /\ \A j, k \in DOMAIN logs :
                      j < k => created_at(logs[j]) < created_at(logs[k])
                /\ \A k \in DOMAIN logs : logs[k] \in due
                /\ \A i \in due :
                      (\E k \in DOMAIN logs : logs[k] = i)
                      \/ (Len(logs) = lim
                          /\ created_at(i) > created_at(logs[Len(logs)]))
                /\ data = [k \in DOMAIN logs |->
                             build_from_fields(logs[k], store[logs[k]])]
      ]_vars

\* A read with limit 1 and a start_time returned the record created at that
\* time and left out a later one that was due too.
C17_Witness ==
    /\ Len(store) >= 2
    /\ \A i \in 1..2 :
          store[i].group_id = "g1" /\ store[i].sync_status = ACCUMULATING
    /\ call["c1"].pc = "done" /\ call["c1"].facade = "get"
    /\ call["c1"].group_id = "g1" /\ call["c1"].error = "none"
    /\ call["c1"].args = <<"1", None, 1>>
    /\ call["c1"].logs = <<1>> /\ Len(call["c1"].data) = 1

\* What a payload yields: it is an object with a non-empty message_id and a
\* non-empty sender, and building the RawData from it raises nothing.
Yields(raw) ==
    /\ raw.kind = "object"
    /\ Truthy(raw.obj.message_id) /\ Truthy(raw.obj.sender)
    /\ raw.obj.fault = "none"

\* to_raw_data returned a RawData with the message_id, sender and content of
\* the payload raw (an absent content being the empty string).
BuiltFrom(d, raw) ==
    /\ raw.kind = "object"
    /\ d.data_id = raw.obj.message_id /\ d.sender = raw.obj.sender
    /\ d.content = (IF raw.obj.content = None THEN "" ELSE raw.obj.content)

\* C18: a record whose raw_input_str parses to an object with a non-empty
\* message_id and sender is converted from that object, whatever its raw_input
\* and its own message_id, sender and content hold; the RawData comes from
\* raw_input only if raw_input_str yields none, and from the record's own
\* fields only if neither raw_input_str nor raw_input yields one.
C18_TierOrdering ==
    \A i \in 1..Len(store) :
        (call["c1"].facade = "to_raw_data" /\ call["c1"].logs = <<i>>) =>
        LET log == store[i]
            data == call["c1"].data
        IN /\ Yields(log.raw_input_str) =>
                /\ call["c1"].error = "none" /\ Len(data) = 1
                /\ BuiltFrom(data[1], log.raw_input_str)
           /\ (data # <<>> /\ BuiltFrom(data[1], log.raw_input)) =>
                ~Yields(log.raw_input_str)
           /\ (data # <<>> /\ data[1].data_id \in {log.message_id, Oid(i)}) =>
                ~Yields(log.raw_input_str) /\ ~Yields(log.raw_input)

\* A record with all three sources filled, differently, was converted from its
\* raw_input_str.
C18_Witness ==
    /\ Len(store) = 1
    /\ Yields(store[1].raw_input_str) /\ Yields(store[1].raw_input)
    /\ store[1].message_id = "msg1" /\ store[1].content = "bye"
    /\ call["c1"].facade = "to_raw_data" /\ call["c1"].logs = <<1>>
    /\ Len(call["c1"].data) = 1
    /\ call["c1"].data[1].data_id = "m1"
    /\ call["c1"].data[1].sender = "u1"
    /\ call["c1"].data[1].content = "hi"

\* A record without raw_input_str and without raw_input, whose fields the
\* builder takes, was converted.
NoPayloadConverted(i) ==
    /\ call["c1"].facade = "to_raw_data" /\ call["c1"].logs = <<i>>
    /\ store[i].raw_input_str.kind = "none" /\ store[i].raw_input.kind = "none"
    /\ store[i].fault = "none"

\* C19, as the code has it: a record with no raw_input_str and no raw_input is
\* converted to a RawData, never to None, whose message_id is the record's
\* message_id, or the record's own identity when message_id is absent or
\* empty, and whose sender and content are the record's, or empty strings
\* when absent.
C19_FieldsFallback ==
    \A i \in 1..Len(store) :
        NoPayloadConverted(i) =>
        LET log == store[i]
            data == call["c1"].data
        IN /\ call["c1"].error = "none" /\ call["c1"].result /\ Len(data) = 1
           /\ data[1].data_id = (IF log.message_id \in {None, ""}
                                 THEN Oid(i) ELSE log.message_id)
           /\ data[1].sender = (IF log.sender = None THEN "" ELSE log.sender)
           /\ data[1].content =
                 (IF log.content = None THEN "" ELSE log.content)

\* C19, as stated: the message_id is the record's own identity only when the
\* record's message_id is absent.
C19_IdentityOnlyWhenAbsent ==
    \A i \in 1..Len(store) :
        NoPayloadConverted(i) =>
        /\ call["c1"].error = "none" /\ Len(call["c1"].data) = 1
        /\ call["c1"].data[1].data_id =
              (IF store[i].message_id = None
               THEN Oid(i) ELSE store[i].message_id)

\* A record with no payload, no message_id and no sender was converted to a
\* RawData with its own identity and empty strings.
C19_Witness ==
    /\ Len(store) = 1 /\ NoPayloadConverted(1)
    /\ store[1].message_id = None /\ store[1].sender = None
    /\ store[1].content = None
    /\ call["c1"].data = <<RawDataOf(Oid(1), "", "", "g1", <<>>, <<RequestId>>)>>

\* The records of the collection whose conversion raises, of whatever kind.
Raising == {i \in 1..Len(store) : to_raw_data(i, store[i]).raised # "none"}

\* C20, as stated: when the conversion of exactly one record of the batch
\* raises, whatever it raises, to_raw_data_list lets no error escape and
\* returns the RawData of the other records, in their order.
C20_BatchNeverFails ==
    (call["c1"].facade = "to_raw_data_list" /\ Cardinality(Raising) = 1) =>
    LET others == SetToSeq((1..Len(store)) \ Raising)
    IN /\ call["c1"].error = "none"
       /\ Len(call["c1"].data) = Len(store) - 1
       /\ call["c1"].data =
             [k \in 1..Len(others) |->
                 to_raw_data(others[k], store[others[k]]).value]

\* C21, as stated: to_raw_data never raises, and every record ends in a
\* RawData: whatever fails in a strategy, the next one is tried, the third at
\* the latest.
C21_NeverRaises ==
    \A i \in 1..Len(store) :
        (call["c1"].facade = "to_raw_data" /\ call["c1"].logs = <<i>>) =>
        /\ call["c1"].error = "none"
        /\ call["c1"].result /\ Len(call["c1"].data) = 1

\* The first strategy gives nothing and raises nothing on raw_input_str: it is
\* missing, empty, no JSON, no object, or lacks message_id or sender.
FallsThrough(raw) ==
    \/ raw.kind \in {"none", "empty", "invalid", "array"}
    \/ raw.kind = "object"
       /\ (~Truthy(raw.obj.message_id) \/ ~Truthy(raw.obj.sender))

\* C22: a create_time that is a string but no ISO-8601 time leaves the
\* timestamp of the RawData absent and nothing else: the payload (of
\* raw_input_str, or of raw_input when raw_input_str gives nothing) or the
\* record's own fields (when there is no payload) that holds it is still the
\* one the RawData is built from, and the conversion does not raise.
C22_BadTimeNoTimestamp ==
    \A i \in 1..Len(store) :
        (call["c1"].facade = "to_raw_data" /\ call["c1"].logs = <<i>>) =>
        LET log == store[i]
            data == call["c1"].data
        IN /\ (Yields(log.raw_input_str)
               /\ log.raw_input_str.obj.create_time = "bad") =>
                 /\ call["c1"].error = "none" /\ Len(data) = 1
                 /\ BuiltFrom(data[1], log.raw_input_str)
                 /\ data[1].timestamp = <<>>
           /\ (FallsThrough(log.raw_input_str) /\ Yields(log.raw_input)
               /\ log.raw_input.obj.create_time = "bad") =>
                 /\ call["c1"].error = "none" /\ Len(data) = 1
                 /\ BuiltFrom(data[1], log.raw_input)
                 /\ data[1].timestamp = <<>>
           /\ (log.raw_input_str.kind = "none" /\ log.raw_input.kind = "none"
               /\ log.fault = "none" /\ log.message_create_time = "bad") =>
                 /\ call["c1"].error = "none" /\ Len(data) = 1
                 /\ data[1].data_id = log.message_id
                 /\ data[1].sender = log.sender
                 /\ data[1].content = log.content
                 /\ data[1].timestamp = <<>>

\* A record whose raw_input_str holds a create_time that is no time, and whose
\* raw_input and own fields hold times, was converted from raw_input_str,
\* without a timestamp.
C22_Witness ==
    /\ Len(store) = 1
    /\ Yields(store[1].raw_input_str)
    /\ store[1].raw_input_str.obj.create_time = "bad"
    /\ Yields(store[1].raw_input)
    /\ store[1].raw_input.obj.create_time = "t2"
    /\ store[1].message_create_time = "t3"
    /\ call["c1"].facade = "to_raw_data" /\ call["c1"].logs = <<1>>
    /\ Len(call["c1"].data) = 1
    /\ call["c1"].data[1].data_id = "m1"
    /\ call["c1"].data[1].timestamp = <<>>

\* The last update call was a save of g1 that carried a non-empty data_id, none
\* of which is the message_id of a record of g1 that was LOGGED when it began.
SavedNoMatch ==
    /\ last.facade = "save" /\ last.group_id = "g1"
    /\ \E k \in DOMAIN last.raw_data_list : last.raw_data_list[k] # ""
    /\ \A i \in 1..Len(store), k \in DOMAIN last.raw_data_list :
          ~(/\ store[i].group_id = "g1" /\ last.before[i] = LOGGED
            /\ store[i].message_id = last.raw_data_list[k])

\* C23: a save that is given a non-empty identifier, none of which matches a
\* LOGGED record of the group, changes no record (the LOGGED records of the
\* group with another or no message_id stay LOGGED), counts none, and returns
\* True.
C23_NoWidening ==
    SavedNoMatch =>
    /\ StatusOf(store) = last.before
    /\ last.modified_count = 0
    /\ (call["c1"].facade = "save" /\ call["c1"].error = "none")
          => call["c1"].result

\* A save of <<msg1>> has returned True and left LOGGED the two records of g1,
\* one with another message_id and one with none.
C23_Witness ==
    /\ SavedNoMatch /\ last.applied /\ last.error = "none"
    /\ last.raw_data_list = <<"msg1">>
    /\ Len(store) = 2
    /\ store[1].group_id = "g1" /\ store[2].group_id = "g1"
    /\ store[1].message_id = "msg2" /\ store[2].message_id = None
    /\ StatusOf(store) = <<LOGGED, LOGGED>>
    /\ call["c1"].facade = "save" /\ call["c1"].result

\* C24: in every interleaving, a record leaves ACCUMULATING only in a step of
\* a close of its own group, which makes it CONSUMED; a step of a confirm, by
\* group or by ids, changes no record that is ACCUMULATING or CONSUMED; and a
\* read of a group that returns finds every record of the group that is
\* ACCUMULATING.
C24_OnlyCloseRemoves ==
    [][/\ \A i \in 1..Len(store) :
            (store[i].sync_status = ACCUMULATING
             /\ store'[i].sync_status # ACCUMULATING) =>
               /\ store'[i].sync_status = CONSUMED
               /\ \E c \in Callers :
                     /\ call[c].pc = "run" /\ call[c].facade = "delete"
                     /\ call[c].group_id = store[i].group_id
                     /\ call[c].pos + 1 = i /\ call'[c].pos = i
       /\ \A c \in Callers :
            (/\ call[c].pc = "run" /\ call[c].facade = "save"
             /\ call'[c].pos = call[c].pos + 1) =>
               \A i \in 1..Len(store) :
                  store[i].sync_status \in {ACCUMULATING, CONSUMED}
                     => store'[i] = store[i]
       /\ \A c \in Callers :
            (/\ call'[c] # call[c] /\ call'[c].facade = "get"
             /\ call'[c].error = "none") =>
               \A i \in 1..Len(store) :
                  (/\ store[i].group_id = call'[c].group_id
                   /\ store[i].sync_status = ACCUMULATING)
                  => \E k \in DOMAIN call'[c].logs : call'[c].logs[k] = i
      ]_vars

\* A confirm has gone over a record of its group that is ACCUMULATING and has
\* not counted it, while a close of the group is running.
C24_Witness ==
    /\ call["c1"].pc = "run" /\ call["c1"].facade = "save"
    /\ call["c1"].pos >= 1 /\ call["c1"].modified_count = 0
    /\ store[1].group_id = "g1" /\ store[1].sync_status = ACCUMULATING
    /\ call["c2"].pc = "run" /\ call["c2"].facade = "delete"
    /\ call["c2"].pos = 0

\* C25, as stated: when a save of a group is given the one RawData that
\* to_raw_data makes of a record of the group that is LOGGED, and returns, the
\* record is ACCUMULATING: the data_id the mapper gives is what the confirm by
\* ids matches against the record's message_id.
C25_OwnIdSelects ==
    \A i \in 1..Len(store) :
        (/\ last.facade = "save" /\ last.error = "none" /\ last.applied
         /\ store[i].group_id = last.group_id /\ last.before[i] = LOGGED
         /\ to_raw_data(i, store[i]).some
         /\ last.raw_data_list = <<to_raw_data(i, store[i]).value.data_id>>)
        => store[i].sync_status = ACCUMULATING

\* C26, as stated: every RawData that get_conversation_data of a group returns
\* carries the group's group_id and an extra_metadata with the request_id of
\* the record it was built from.
C26_GroupAndRequest ==
    (/\ call["c1"].facade = "get" /\ call["c1"].error = "none"
     /\ Len(call["c1"].data) = Len(call["c1"].logs)) =>
    \A k \in DOMAIN call["c1"].data :
        /\ call["c1"].data[k].group_id = call["c1"].group_id
        /\ call["c1"].data[k].extra_metadata =
              <<store[call["c1"].logs[k]].request_id>>
====
